---- MODULE Spec2Model ----
(***************************************************************************)
(* Retrieval pipeline of the process semantic layer: the concept store     *)
(* (concept_graph.py), the tagger (document_loader.py), the ranker         *)
(* (embedding_engine.py) and the orchestrator (retrieval_pipeline.py).     *)
(*                                                                         *)
(* A text is a sequence of one-character strings.  An embedding is a       *)
(* tuple of integers; an absent embedding (None) is the empty tuple.  A    *)
(* similarity score is a fixed-point number in units of 1/ScoreOne.        *)
(***************************************************************************)
EXTENDS Integers, Sequences, FiniteSets

VARIABLES
    concepts,         \* ConceptGraph.concepts: the dict, in insertion order
    files,            \* the *.md files of docs_dir, sorted: parsed Document or unparsable
    _initialized,     \* RetrievalPipeline._initialized
    documents,        \* RetrievalPipeline.documents (the ranker's input in SpecRank)
    last_op,          \* the operation that returned last
    q_text,           \* its query_text argument
    q_top_k,          \* its top_k argument
    query_embedding,  \* the vector embed_query returned to it
    matched,          \* its matched_concept_ids
    candidates,       \* its candidate_docs
    ranked,           \* its ranked_docs
    result,           \* the list it returned
    error,            \* the exception it raised, or "none"
    calls,            \* the calls it made to the loader, the concept store and the provider
    sn_content,       \* SpecSnippet: the content given to _extract_snippet
    sn_max_chars,     \* SpecSnippet: its max_chars argument
    sn_result,        \* SpecSnippet: the snippet it returned
    threads,          \* SpecThreads: each calling thread's position and locals
    heap,             \* SpecThreads: the document lists created by load_documents
    documents_id      \* SpecThreads: the list self.documents refers to

vars == << concepts, files, _initialized, documents, last_op, q_text, q_top_k,
           query_embedding, matched, candidates, ranked, result, error, calls,
           sn_content, sn_max_chars, sn_result, threads, heap, documents_id >>

(***************************************************************************)
(* Bounds of the model.                                                    *)
(***************************************************************************)
MaxTextLen == 3      \* length of the texts given to match_concepts in SpecMatch
MaxConcepts == 2     \* entries of the concepts YAML in SpecMatch
MaxFiles == 3        \* markdown files in the documents directory
MaxTopK == 3         \* largest top_k passed to query()
MaxRankDocs == 3     \* documents handed to rank_by_similarity in SpecRank

(***************************************************************************)
(* Sequences and text, as Python computes them.                            *)
(***************************************************************************)
Range(s) == { s[i] : i \in 1..Len(s) }

Min(a, b) == IF a <= b THEN a ELSE b

Max(a, b) == IF a >= b THEN a ELSE b

\* s[:k]: a negative k counts from the end
Take(s, k) ==
    IF k >= 0 THEN SubSeq(s, 1, Min(k, Len(s)))
              ELSE SubSeq(s, 1, Max(Len(s) + k, 0))

\* all sequences over S of length at most n
RECURSIVE SeqsUpTo(_, _)
SeqsUpTo(S, n) ==
    IF n = 0 THEN { <<>> }
    ELSE LET shorter == SeqsUpTo(S, n - 1)
         IN  shorter \cup { Append(s, x) : s \in shorter, x \in S }

Whitespace == { " ", "\n" }

\* one character of str.lower()
Lower(c) ==
    CASE c = "A" -> "a"
      [] c = "B" -> "b"
      [] OTHER -> c

\* sub in text
Contains(sub, text) ==
    \E i \in 0..(Len(text) - Len(sub)) : SubSeq(text, i + 1, i + Len(sub)) = sub

\* text.find-from-the-right: the highest 0-based index where sub starts, or -1
rfind(text, sub) ==
    LET at == { i \in 0..(Len(text) - Len(sub)) : SubSeq(text, i + 1, i + Len(sub)) = sub }
    IN  IF at = {} THEN -1 ELSE CHOOSE i \in at : \A j \in at : j <= i

\* text.strip()
RECURSIVE lstrip(_)
lstrip(text) ==
    IF text # <<>> /\ Head(text) \in Whitespace THEN lstrip(Tail(text)) ELSE text

RECURSIVE rstrip(_)
rstrip(text) ==
    IF text # <<>> /\ text[Len(text)] \in Whitespace
    THEN rstrip(SubSeq(text, 1, Len(text) - 1))
    ELSE text

strip(text) == rstrip(lstrip(text))

(***************************************************************************)
(* Concept store (concept_graph.py).                                       *)
(***************************************************************************)
Concept(id, name, synonyms) == [ id |-> id, name |-> name, synonyms |-> synonyms ]

\* self.concepts[concept.id] = concept: a new key is appended, an existing
\* key keeps its position and takes the new value
DictSet(dict, concept) ==
    IF \E i \in 1..Len(dict) : dict[i].id = concept.id
    THEN [ i \in 1..Len(dict) |-> IF dict[i].id = concept.id THEN concept ELSE dict[i] ]
    ELSE Append(dict, concept)

RECURSIVE LoadFrom(_, _, _)
LoadFrom(data, i, dict) ==
    IF i > Len(data) THEN dict
    ELSE LoadFrom(data, i + 1, DictSet(dict, data[i]))

_load_concepts(data) == LoadFrom(data, 1, <<>>)

_normalize(text) == [ i \in 1..Len(text) |-> Lower(text[i]) ]

\* the loop over concept.synonyms, left at the first hit
RECURSIVE SynonymHit(_, _, _)
SynonymHit(synonyms, j, normalized_text) ==
    IF j > Len(synonyms) THEN FALSE
    ELSE IF Contains(_normalize(synonyms[j]), normalized_text) THEN TRUE
    ELSE SynonymHit(synonyms, j + 1, normalized_text)

\* mutant of MatchOne: the continue after a name hit is missing
MatchOne_no_continue(concept, normalized_text, matched_ids) ==
    LET by_name == IF Contains(_normalize(concept.name), normalized_text)
                   THEN Append(matched_ids, concept.id)
                   ELSE matched_ids
    IN  IF SynonymHit(concept.synonyms, 1, normalized_text)
        THEN Append(by_name, concept.id)
        ELSE by_name

\* one iteration of the loop over self.concepts.items()
MatchOne(concept, normalized_text, matched_ids) ==
    IF Contains(_normalize(concept.name), normalized_text)
    THEN Append(matched_ids, concept.id)
    ELSE IF SynonymHit(concept.synonyms, 1, normalized_text)
         THEN Append(matched_ids, concept.id)
         ELSE matched_ids

RECURSIVE MatchLoop(_, _, _, _)
MatchLoop(store, i, normalized_text, matched_ids) ==
    IF i > Len(store) THEN matched_ids
    ELSE MatchLoop(store, i + 1, normalized_text,
                   MatchOne(store[i], normalized_text, matched_ids))

match_concepts(store, text) ==
    IF text = <<>> THEN <<>>
    ELSE MatchLoop(store, 1, _normalize(text), <<>>)

(***************************************************************************)
(* Tagger and loader (document_loader.py, models.py).                      *)
(***************************************************************************)
None == <<>>

Document(doc_id, title, content) ==
    [ doc_id |-> doc_id, title |-> title, content |-> content ]

TaggedDocument(doc_id, title, content, matched_concepts, embedding) ==
    [ doc_id |-> doc_id, title |-> title, content |-> content,
      matched_concepts |-> matched_concepts, embedding |-> embedding ]

\* mutant of _tag_document: title and content are joined without the space
_tag_document_no_space(store, doc) ==
    LET text_to_match == doc.title \o doc.content
        matched_concept_ids == match_concepts(store, text_to_match)
    IN  TaggedDocument(doc.doc_id, doc.title, doc.content, matched_concept_ids, None)

_tag_document(store, doc) ==
    LET text_to_match == doc.title \o << " " >> \o doc.content
        matched_concept_ids == match_concepts(store, text_to_match)
    IN  TaggedDocument(doc.doc_id, doc.title, doc.content, matched_concept_ids, None)

\* the loop over md_files: a file that fails to parse is skipped
RECURSIVE LoadLoop(_, _, _, _)
LoadLoop(store, md_files, i, docs) ==
    IF i > Len(md_files) THEN docs
    ELSE LoadLoop(store, md_files, i + 1,
                  IF md_files[i].parses
                  THEN Append(docs, _tag_document(store, md_files[i].doc))
                  ELSE docs)

\* load_documents raises ValueError when the directory holds no markdown file
NoMarkdownFiles(md_files) == md_files = <<>>

load_documents(store, md_files) == LoadLoop(store, md_files, 1, <<>>)

(***************************************************************************)
(* Embedding engine (embedding_engine.py).                                 *)
(***************************************************************************)
\* mutant of embed_documents: the last document is left without embedding
embed_documents_skips_last(docs, embeddings) ==
    IF docs = <<>> THEN docs
    ELSE [ i \in 1..Len(docs) |->
             IF i < Len(docs) /\ i <= Len(embeddings)
             THEN [ docs[i] EXCEPT !.embedding = embeddings[i] ]
             ELSE docs[i] ]

\* for doc, embedding in zip(docs, embeddings): doc.embedding = embedding
embed_documents(docs, embeddings) ==
    IF docs = <<>> THEN docs
    ELSE [ i \in 1..Len(docs) |->
             IF i <= Len(embeddings)
             THEN [ docs[i] EXCEPT !.embedding = embeddings[i] ]
             ELSE docs[i] ]

\* embed_query raises ValueError for the empty string
EmptyQuery(query) == query = <<>>

\* score 1.0 and score 0.0 in fixed point
ScoreOne == 25

ScoreZero == 0

RECURSIVE DotFrom(_, _, _)
DotFrom(a, b, i) ==
    IF i > Len(a) THEN 0 ELSE a[i] * b[i] + DotFrom(a, b, i + 1)

Dot(a, b) == DotFrom(a, b, 1)

ISqrt(n) == CHOOSE r \in 0..n : r * r <= n /\ (r + 1) * (r + 1) > n

Norm(a) == ISqrt(Dot(a, a))

\* sklearn normalises each row, leaving a zero row as it is
NormOrOne(a) == IF Norm(a) = 0 THEN 1 ELSE Norm(a)

cosine_similarity(a, b) == (Dot(a, b) * ScoreOne) \div (NormOrOne(a) * NormOrOne(b))

HasEmbedding(doc) == doc.embedding # None

\* mutant of InsertDesc: an ascending sort that is then reversed, so equal
\* keys come out in reverse input order
InsertDesc_reversed_ties(sorted, x) ==
    LET p == 1 + Cardinality({ i \in 1..Len(sorted) : sorted[i].score > x.score })
    IN  SubSeq(sorted, 1, p - 1) \o << x >> \o SubSeq(sorted, p, Len(sorted))

\* list.sort(key=score, reverse=True): stable, equal keys keep their order
InsertDesc(sorted, x) ==
    LET p == 1 + Cardinality({ i \in 1..Len(sorted) : sorted[i].score >= x.score })
    IN  SubSeq(sorted, 1, p - 1) \o << x >> \o SubSeq(sorted, p, Len(sorted))

RECURSIVE SortFrom(_, _, _)
SortFrom(pairs, i, sorted) ==
    IF i > Len(pairs) THEN sorted
    ELSE SortFrom(pairs, i + 1, InsertDesc(sorted, pairs[i]))

SortDesc(pairs) == SortFrom(pairs, 1, <<>>)

\* mutant of docs_with_embeddings: documents without an embedding are kept
docs_with_embeddings_unfiltered(docs) == docs

docs_with_embeddings(docs) == SelectSeq(docs, HasEmbedding)

\* np.vstack raises when a stacked embedding is None
StackRaises(docs) ==
    docs # <<>> /\ \E i \in 1..Len(docs_with_embeddings(docs)) :
                      docs_with_embeddings(docs)[i].embedding = None

rank_by_similarity(query_vec, docs) ==
    IF docs = <<>> THEN <<>>
    ELSE LET with == docs_with_embeddings(docs)
         IN  IF with = <<>> \/ StackRaises(docs) THEN <<>>
             ELSE SortDesc([ i \in 1..Len(with) |->
                     [ doc |-> with[i],
                       score |-> cosine_similarity(query_vec, with[i].embedding) ] ])

(***************************************************************************)
(* Snippet extractor (retrieval_pipeline.py).                              *)
(***************************************************************************)
Delimiters == << << ".", " " >>, << "?", " " >>, << "!", " " >> >>

Ellipsis == << ".", ".", "." >>

\* mutant of CutAtSpace: a space at index 0 is a cut point too
CutAtSpace_cuts_at_zero(snippet) ==
    LET last_space == rfind(snippet, << " " >>)
    IN  strip(IF last_space >= 0 THEN Take(snippet, last_space) ELSE snippet) \o Ellipsis

\* mutant of CutAtSpace: the marker is appended after a separating space
CutAtSpace_spaced_ellipsis(snippet) ==
    LET last_space == rfind(snippet, << " " >>)
    IN  strip(IF last_space > 0 THEN Take(snippet, last_space) ELSE snippet)
            \o << " " >> \o Ellipsis

\* no good sentence boundary: cut at the last space and append "..."
CutAtSpace(snippet) ==
    LET last_space == rfind(snippet, << " " >>)
    IN  strip(IF last_space > 0 THEN Take(snippet, last_space) ELSE snippet) \o Ellipsis

\* mutant of DelimiterLoop: the sentence end is cut before its punctuation
RECURSIVE DelimiterLoop_drops_punctuation(_, _, _)
DelimiterLoop_drops_punctuation(snippet, k, max_chars) ==
    IF k > Len(Delimiters) THEN CutAtSpace(snippet)
    ELSE LET last_sentence == rfind(snippet, Delimiters[k])
         IN  IF last_sentence > max_chars \div 2
             THEN strip(Take(snippet, last_sentence))
             ELSE DelimiterLoop_drops_punctuation(snippet, k + 1, max_chars)

\* for delimiter in ['. ', '? ', '! ']: the first delimiter whose last
\* occurrence lies beyond max_chars // 2 decides
RECURSIVE DelimiterLoop(_, _, _)
DelimiterLoop(snippet, k, max_chars) ==
    IF k > Len(Delimiters) THEN CutAtSpace(snippet)
    ELSE LET last_sentence == rfind(snippet, Delimiters[k])
         IN  IF last_sentence > max_chars \div 2
             THEN strip(Take(snippet, last_sentence + 1))
             ELSE DelimiterLoop(snippet, k + 1, max_chars)

\* mutant of _extract_snippet: short content is trimmed before it is returned
_extract_snippet_trims_short(content, max_chars) ==
    IF content = <<>> THEN <<>>
    ELSE IF Len(content) <= max_chars THEN strip(content)
    ELSE DelimiterLoop(Take(content, max_chars), 1, max_chars)

_extract_snippet(content, max_chars) ==
    IF content = <<>> THEN <<>>
    ELSE IF Len(content) <= max_chars THEN content
    ELSE DelimiterLoop(Take(content, max_chars), 1, max_chars)

SnippetMaxChars == 200

(***************************************************************************)
(* Orchestrator (retrieval_pipeline.py).                                   *)
(***************************************************************************)
NoCalls == [ load |-> 0, match |-> 0, encode |-> 0 ]

\* mutant of AlreadyInitialized: the guard is missing, every call initializes again
AlreadyInitialized_missing == FALSE

\* mutant of AlreadyInitialized: a collection left by a failed call counts
AlreadyInitialized_by_documents == _initialized \/ documents # <<>>

\* mutant of AlreadyInitialized: only an empty Ready orchestrator returns early
AlreadyInitialized_empty_only == _initialized /\ documents = <<>>

\* if self._initialized: return
AlreadyInitialized == _initialized

\* mutant of NotReady: readiness is read off the document list, not the flag
NotReady_by_documents == ~_initialized /\ documents = <<>>

\* if not self._initialized: raise RuntimeError
NotReady == ~_initialized

\* mutant of IsBlankQuery: only the empty string is short-circuited
IsBlankQuery_empty_only(query_text) == query_text = <<>>

\* if not query_text or not query_text.strip(): return []
IsBlankQuery(query_text) == query_text = <<>> \/ strip(query_text) = <<>>

\* any(concept_id in doc.matched_concepts for concept_id in matched_concept_ids)
SharesConcept(doc, matched_concept_ids) ==
    \E k \in 1..Len(matched_concept_ids) :
        \E m \in 1..Len(doc.matched_concepts) :
            doc.matched_concepts[m] = matched_concept_ids[k]

\* mutant of candidate_docs: no fallback to the whole collection
candidate_docs_no_fallback(docs, matched_concept_ids) ==
    LET Keep(doc) == SharesConcept(doc, matched_concept_ids)
    IN  SelectSeq(docs, Keep)

candidate_docs(docs, matched_concept_ids) ==
    IF matched_concept_ids # <<>>
    THEN LET Keep(doc) == SharesConcept(doc, matched_concept_ids)
         IN  SelectSeq(docs, Keep)
    ELSE docs

\* mutant of ScoreValid: the score field accepts any number
ScoreValid_unchecked(score) == TRUE

\* QueryResponse.score: Field(..., ge=0.0, le=1.0), validated on construction
ScoreValid(score) == score >= ScoreZero /\ score <= ScoreOne

QueryResponse(doc, score) ==
    [ doc_id |-> doc.doc_id, title |-> doc.title,
      matched_concepts |-> doc.matched_concepts, score |-> score,
      snippet |-> _extract_snippet(doc.content, SnippetMaxChars) ]

\* ranked_docs[:top_k]
TopK(ranked_docs, top_k) == Take(ranked_docs, top_k)

\* what one query() call computes, from the state it reads
QueryOutcome(query_text, top_k, provider_vec, provider_ok) ==
    LET blank == [ matched |-> <<>>, candidates |-> <<>>, query_embedding |-> None,
                   ranked |-> <<>>, result |-> <<>>, error |-> "none", calls |-> NoCalls ]
    IN
    IF NotReady THEN [ blank EXCEPT !.error = "NotReady" ]
    ELSE IF IsBlankQuery(query_text) THEN blank
    ELSE
      LET matched_concept_ids == match_concepts(concepts, query_text)
          cands == candidate_docs(documents, matched_concept_ids)
          filtered == [ blank EXCEPT !.matched = matched_concept_ids,
                                     !.candidates = cands,
                                     !.calls = [ NoCalls EXCEPT !.match = 1 ] ]
      IN
      IF cands = <<>> THEN filtered
      ELSE IF EmptyQuery(query_text) THEN [ filtered EXCEPT !.error = "EmptyQuery" ]
      ELSE
        LET embedding == [ filtered EXCEPT !.calls = [ NoCalls EXCEPT !.match = 1, !.encode = 1 ] ]
        IN
        IF ~provider_ok THEN [ embedding EXCEPT !.error = "ProviderError" ]
        ELSE
          LET ranked_docs == rank_by_similarity(provider_vec, cands)
              selected == TopK(ranked_docs, top_k)
              scored == [ embedding EXCEPT !.query_embedding = provider_vec,
                                           !.ranked = ranked_docs ]
          IN
          IF \E i \in 1..Len(selected) : ~ScoreValid(selected[i].score)
          THEN [ scored EXCEPT !.error = "ValidationError" ]
          ELSE [ scored EXCEPT !.result =
                   [ i \in 1..Len(selected) |->
                       QueryResponse(selected[i].doc, selected[i].score) ] ]

(***************************************************************************)
(* The environment of the orchestrator: the concepts file, the documents   *)
(* directory, the callers' queries and the vectors the provider returns.   *)
(***************************************************************************)
\* the elements of s at the indices in I, in order
SubseqAt(s, I) ==
    LET F[i \in 0..Len(s)] ==
            IF i = 0 THEN <<>>
            ELSE IF i \in I THEN Append(F[i - 1], s[i]) ELSE F[i - 1]
    IN  F[Len(s)]

PipelineYaml ==
    { << Concept("pay", << "a" >>, <<>>) >>,
      << Concept("pay", << "a", "b" >>, << << "A" >> >>),
         Concept("tax", << "b" >>, <<>>) >> }

MarkdownFile(doc) == [ parses |-> TRUE, doc |-> doc ]

Unparsable == [ parses |-> FALSE, doc |-> Document("", <<>>, <<>>) ]

AllFiles ==
    << MarkdownFile(Document("d1", << "A" >>, << "a", " ", "b", "." >>)),
       Unparsable,
       MarkdownFile(Document("d2", << "b" >>, << "b", "?" >>)),
       MarkdownFile(Document("d3", << "c" >>, <<>>)) >>

FileChoices ==
    { SubseqAt(AllFiles, I) :
        I \in { J \in SUBSET (1..Len(AllFiles)) : Cardinality(J) <= MaxFiles } }

QueryTexts ==
    { <<>>, << " ", "\n" >>, << "a" >>, << "B", " " >>, << "c" >> }

TopKs == 0..MaxTopK

DocVectors == { << 1, 0 >>, << -1, 0 >>, << 3, 4 >> }

QueryVectors == { << 1, 0 >>, << 0, 1 >> }

Init ==
    /\ concepts \in { _load_concepts(data) : data \in PipelineYaml }
    /\ files \in FileChoices
    /\ _initialized = FALSE
    /\ documents = <<>>
    /\ last_op = "none"
    /\ q_text = <<>>
    /\ q_top_k = 0
    /\ query_embedding = None
    /\ matched = <<>>
    /\ candidates = <<>>
    /\ ranked = <<>>
    /\ result = <<>>
    /\ error = "none"
    /\ calls = NoCalls
    /\ sn_content = <<>>
    /\ sn_max_chars = 0
    /\ sn_result = <<>>
    /\ threads = <<>>
    /\ heap = <<>>
    /\ documents_id = 0

initialize ==
    /\ last_op' = "initialize"
    /\ q_text' = <<>>
    /\ q_top_k' = 0
    /\ query_embedding' = None
    /\ matched' = <<>>
    /\ candidates' = <<>>
    /\ ranked' = <<>>
    /\ result' = <<>>
    /\ UNCHANGED << concepts, files, sn_content, sn_max_chars, sn_result,
                    threads, heap, documents_id >>
    /\ IF AlreadyInitialized
       THEN /\ error' = "none"
            /\ calls' = NoCalls
            /\ UNCHANGED << _initialized, documents >>
       ELSE IF NoMarkdownFiles(files)
       THEN /\ error' = "NoMarkdownFiles"
            /\ calls' = [ NoCalls EXCEPT !.load = 1 ]
            /\ UNCHANGED << _initialized, documents >>
       ELSE LET loaded == load_documents(concepts, files)
                tagging == [ NoCalls EXCEPT !.load = 1, !.match = Len(loaded) ]
            IN  IF loaded = <<>>
                THEN /\ documents' = loaded
                     /\ _initialized' = TRUE
                     /\ error' = "none"
                     /\ calls' = tagging
                ELSE \E provider_ok \in BOOLEAN :
                     \E embeddings \in [ 1..Len(loaded) -> DocVectors ] :
                        /\ calls' = [ tagging EXCEPT !.encode = 1 ]
                        /\ IF provider_ok
                           THEN /\ documents' = embed_documents(loaded, embeddings)
                                /\ _initialized' = TRUE
                                /\ error' = "none"
                           ELSE /\ documents' = loaded
                                /\ _initialized' = FALSE
                                /\ error' = "ProviderError"

query ==
    \E query_text \in QueryTexts, top_k \in TopKs :
    \E provider_vec \in QueryVectors, provider_ok \in BOOLEAN :
        \E out \in { QueryOutcome(query_text, top_k, provider_vec, provider_ok) } :
            /\ last_op' = "query"
            /\ q_text' = query_text
            /\ q_top_k' = top_k
            /\ query_embedding' = out.query_embedding
            /\ matched' = out.matched
            /\ candidates' = out.candidates
            /\ ranked' = out.ranked
            /\ result' = out.result
            /\ error' = out.error
            /\ calls' = out.calls
            /\ UNCHANGED << concepts, files, _initialized, documents,
                            sn_content, sn_max_chars, sn_result,
                    threads, heap, documents_id >>

Next == initialize \/ query

Spec == Init /\ [][Next]_vars

(***************************************************************************)
(* Properties of the orchestrator, checked under Spec.                     *)
(***************************************************************************)
NonBlank(text) == \E i \in 1..Len(text) : text[i] \notin Whitespace

ReadyQuery == _initialized /\ last_op = "query"

\* the score the ranker gives a document of the collection for the last query
ScoreOf(doc) == cosine_similarity(query_embedding, doc.embedding)

C2_TopKResults ==
    (ReadyQuery /\ NonBlank(q_text) /\ q_top_k >= 1 /\ error # "ProviderError") =>
        /\ error = "none"
        /\ Len(result) = Min(q_top_k, Len(candidates))
        /\ \A doc \in Range(candidates) :
              (\A i \in 1..Len(result) : result[i].doc_id # doc.doc_id) =>
                  \A i \in 1..Len(result) : ScoreOf(doc) <= result[i].score

\* C2, for the calls in which every selected score passes the validation of
\* QueryResponse.score
C2_TopKWhenScoresValid ==
    (ReadyQuery /\ NonBlank(q_text) /\ q_top_k >= 1 /\ error = "none") =>
        /\ Len(result) = Min(q_top_k, Len(candidates))
        /\ \A doc \in Range(candidates) :
              (\A i \in 1..Len(result) : result[i].doc_id # doc.doc_id) =>
                  \A i \in 1..Len(result) : ScoreOf(doc) <= result[i].score

\* C3: while Uninitialized, every query() call fails with the not-ready
\* error, whatever the text and top_k, calls neither the concept store nor
\* the provider, and leaves the orchestrator state unchanged.
C3_NotReadyRejects ==
    [][ (~_initialized /\ last_op' = "query") =>
            /\ error' = "NotReady"
            /\ result' = <<>>
            /\ calls' = NoCalls
            /\ UNCHANGED << _initialized, documents, concepts, files >> ]_vars

\* C3 witness: a whitespace-only query was rejected while documents were
\* loaded but the pipeline was not initialized
C3_Witness ==
    /\ ~_initialized
    /\ last_op = "query"
    /\ error = "NotReady"
    /\ q_text # <<>> /\ ~NonBlank(q_text)
    /\ documents # <<>>

\* C4: in state Ready, query() with empty or whitespace-only text returns
\* the empty list without calling the provider, so query() never raises the
\* provider's empty-text error.
C4_BlankQueryEmpty ==
    /\ (ReadyQuery /\ ~NonBlank(q_text)) =>
          (result = <<>> /\ error = "none" /\ calls.encode = 0)
    /\ error # "EmptyQuery"

\* C4 witness: a whitespace-only query against a non-empty collection
C4_Witness ==
    /\ ReadyQuery
    /\ q_text # <<>> /\ ~NonBlank(q_text)
    /\ documents # <<>>
    /\ result = <<>>

\* C5: the state only moves from Uninitialized to Ready; initialize() when
\* already Ready raises nothing, calls neither the loader nor the provider
\* and leaves the collection and the state unchanged.
C5_InitializeOnce ==
    [][ /\ _initialized => _initialized'
        /\ (_initialized /\ last_op' = "initialize") =>
              /\ error' = "none"
              /\ calls' = NoCalls
              /\ UNCHANGED << _initialized, documents >> ]_vars

\* C5 witness: initialize() returned in state Ready without any call
C5_Witness ==
    /\ _initialized
    /\ last_op = "initialize"
    /\ calls = NoCalls
    /\ documents # <<>>

(***************************************************************************)
(* match_concepts alone: every text over a small alphabet against every    *)
(* store loaded from a small concepts file.                                *)
(***************************************************************************)
MatchAlphabet == { "a", "b", "A" }

MatchConceptIds == { "c1", "c2" }

MatchNames == { << "a", "b" >>, << "B" >>, <<>> }

MatchSynonyms == { <<>>, << << "A" >> >>, << << "b", "a" >>, << "a" >> >> }

MatchYaml ==
    SeqsUpTo({ Concept(id, name, synonyms) :
                 id \in MatchConceptIds, name \in MatchNames, synonyms \in MatchSynonyms },
             MaxConcepts)

InitMatch ==
    /\ concepts \in { _load_concepts(data) : data \in MatchYaml }
    /\ q_text \in SeqsUpTo(MatchAlphabet, MaxTextLen)
    /\ files = <<>>
    /\ _initialized = FALSE
    /\ documents = <<>>
    /\ last_op = "none"
    /\ q_top_k = 0
    /\ query_embedding = None
    /\ matched = <<>>
    /\ candidates = <<>>
    /\ ranked = <<>>
    /\ result = <<>>
    /\ error = "none"
    /\ calls = NoCalls
    /\ sn_content = <<>>
    /\ sn_max_chars = 0
    /\ sn_result = <<>>
    /\ threads = <<>>
    /\ heap = <<>>
    /\ documents_id = 0

MatchConcepts ==
    /\ last_op = "none"
    /\ matched' = match_concepts(concepts, q_text)
    /\ last_op' = "match_concepts"
    /\ UNCHANGED << concepts, files, _initialized, documents, q_text, q_top_k,
                    query_embedding, candidates, ranked, result, error, calls,
                    sn_content, sn_max_chars, sn_result,
                    threads, heap, documents_id >>

NextMatch == MatchConcepts

SpecMatch == InitMatch /\ [][NextMatch]_vars

\* the concept's lower-cased name or one of its lower-cased synonyms occurs
\* in the lower-cased text
Hits(concept, text) ==
    \/ Contains(_normalize(concept.name), _normalize(text))
    \/ \E j \in 1..Len(concept.synonyms) :
          Contains(_normalize(concept.synonyms[j]), _normalize(text))

\* C6: match_concepts(text) is empty for the empty text, and otherwise
\* exactly the ids of the concepts whose lower-cased name or a lower-cased
\* synonym is a substring of the lower-cased text, in the store's insertion
\* order, each id at most once.
C6_MatchConcepts ==
    last_op = "match_concepts" =>
        LET HitsText(concept) == Hits(concept, q_text)
            hit == SelectSeq(concepts, HitsText)
        IN  /\ q_text = <<>> => matched = <<>>
            /\ q_text # <<>> => matched = [ i \in 1..Len(hit) |-> hit[i].id ]
            /\ \A i, j \in 1..Len(matched) : i # j => matched[i] # matched[j]

\* C6 witness: two concepts match a text with an upper-case letter, one of
\* them by its name and by a synonym at once, the other by a synonym only
C6_Witness ==
    /\ last_op = "match_concepts"
    /\ Len(matched) = 2
    /\ "A" \in Range(q_text)
    /\ \E i, k \in 1..Len(concepts) :
          /\ i # k
          /\ concepts[i].name # <<>>
          /\ Contains(_normalize(concepts[i].name), _normalize(q_text))
          /\ SynonymHit(concepts[i].synonyms, 1, _normalize(q_text))
          /\ ~Contains(_normalize(concepts[k].name), _normalize(q_text))

(***************************************************************************)
(* rank_by_similarity alone: every query vector against every short        *)
(* sequence of documents, with and without embeddings.                     *)
(***************************************************************************)
RankDocIds == << "r1", "r2", "r3", "r4", "r5", "r6" >>

RankVectors == { << 1, 0 >>, << -1, 0 >>, << 3, 4 >>, << 0, 0 >> }

RankInputs ==
    { [ i \in 1..Len(embeddings) |->
          TaggedDocument(RankDocIds[i], << "t" >>, << "c" >>, <<>>, embeddings[i]) ] :
        embeddings \in SeqsUpTo(RankVectors \cup { None }, MaxRankDocs) }

InitRank ==
    /\ documents \in RankInputs
    /\ query_embedding \in { << 1, 0 >>, << 0, 1 >>, << 0, 0 >> }
    /\ concepts = <<>>
    /\ files = <<>>
    /\ _initialized = FALSE
    /\ last_op = "none"
    /\ q_text = <<>>
    /\ q_top_k = 0
    /\ matched = <<>>
    /\ candidates = <<>>
    /\ ranked = <<>>
    /\ result = <<>>
    /\ error = "none"
    /\ calls = NoCalls
    /\ sn_content = <<>>
    /\ sn_max_chars = 0
    /\ sn_result = <<>>
    /\ threads = <<>>
    /\ heap = <<>>
    /\ documents_id = 0

RankBySimilarity ==
    /\ last_op = "none"
    /\ ranked' = rank_by_similarity(query_embedding, documents)
    /\ error' = IF StackRaises(documents) THEN "StackError" ELSE "none"
    /\ last_op' = "rank_by_similarity"
    /\ UNCHANGED << concepts, files, _initialized, documents, q_text, q_top_k,
                    query_embedding, matched, candidates, result, calls,
                    sn_content, sn_max_chars, sn_result,
                    threads, heap, documents_id >>

NextRank == RankBySimilarity

SpecRank == InitRank /\ [][NextRank]_vars

\* the position of a ranked document in the input sequence
InputIndex(doc) == CHOOSE k \in 1..Len(documents) : documents[k].doc_id = doc.doc_id

\* C7: rank_by_similarity returns (document, score) pairs sorted by score
\* non-increasing, and two documents with exactly equal scores keep the
\* relative order they had in the input sequence.
C7_SortedStable ==
    last_op = "rank_by_similarity" =>
        \A i, j \in 1..Len(ranked) :
            i < j =>
                /\ ranked[i].score >= ranked[j].score
                /\ ranked[i].score = ranked[j].score =>
                      InputIndex(ranked[i].doc) < InputIndex(ranked[j].doc)

\* C7 witness: two documents tie, and a document that came after them in
\* the input is ranked before them
C7_Witness ==
    /\ last_op = "rank_by_similarity"
    /\ \E i, j, k \in 1..Len(ranked) :
          /\ i < j /\ j < k
          /\ ranked[i].score > ranked[j].score
          /\ ranked[j].score = ranked[k].score
          /\ InputIndex(ranked[i].doc) > InputIndex(ranked[k].doc)

\* C8: rank_by_similarity returns exactly one pair for each input document
\* that has an embedding and none for a document without one; it raises no
\* error, and returns the empty sequence for an empty input and for an
\* input in which no document has an embedding.
C8_EmbeddedOnly ==
    last_op = "rank_by_similarity" =>
        LET embedded == { k \in 1..Len(documents) : documents[k].embedding # None }
        IN  /\ error = "none"
            /\ Len(ranked) = Cardinality(embedded)
            /\ \A k \in embedded :
                  Cardinality({ i \in 1..Len(ranked) : ranked[i].doc = documents[k] }) = 1
            /\ \A i \in 1..Len(ranked) : ranked[i].doc.embedding # None
            /\ embedded = {} => ranked = <<>>

\* C8 witness: an input with a document that lacks an embedding between two
\* that have one
C8_Witness ==
    /\ last_op = "rank_by_similarity"
    /\ Len(documents) = 3
    /\ documents[2].embedding = None
    /\ Len(ranked) = 2

(***************************************************************************)
(* _tag_document alone: one Document tagged against one store, twice.      *)
(***************************************************************************)
MaxTagRuns == 2

TagTitles == { <<>>, << "a" >>, << "A", "b" >>, << "b" >> }

TagContents == { <<>>, << "b" >>, << "b", " ", "a" >>, << "a" >> }

TagYaml ==
    { << Concept("c1", << "a", "b" >>, <<>>) >>,
      << Concept("c1", << "a", " ", "b" >>, <<>>), Concept("c2", << "b" >>, << << "a" >> >>) >>,
      << Concept("c1", << " " >>, <<>>), Concept("c2", << "b", "b" >>, <<>>) >>,
      << Concept("c2", << "b" >>, <<>>), Concept("c1", << "a" >>, <<>>) >> }

InitTag ==
    /\ concepts \in { _load_concepts(data) : data \in TagYaml }
    /\ files \in { << MarkdownFile(Document("t1", title, content)) >> :
                     title \in TagTitles, content \in TagContents }
    /\ _initialized = FALSE
    /\ documents = <<>>
    /\ last_op = "none"
    /\ q_text = <<>>
    /\ q_top_k = 0
    /\ query_embedding = None
    /\ matched = <<>>
    /\ candidates = <<>>
    /\ ranked = <<>>
    /\ result = <<>>
    /\ error = "none"
    /\ calls = NoCalls
    /\ sn_content = <<>>
    /\ sn_max_chars = 0
    /\ sn_result = <<>>
    /\ threads = <<>>
    /\ heap = <<>>
    /\ documents_id = 0

\* the tagger is applied to the same Document once more
TagDocument ==
    /\ Len(documents) < MaxTagRuns
    /\ documents' = Append(documents, _tag_document(concepts, files[1].doc))
    /\ last_op' = "_tag_document"
    /\ UNCHANGED << concepts, files, _initialized, q_text, q_top_k, query_embedding,
                    matched, candidates, ranked, result, error, calls,
                    sn_content, sn_max_chars, sn_result,
                    threads, heap, documents_id >>

NextTag == TagDocument

SpecTag == InitTag /\ [][NextTag]_vars

\* C9: tagging produces a TaggedDocument with the Document's doc_id, title
\* and content, matched_concepts = match_concepts(title + " " + content)
\* and no embedding; the Document is not modified, and tagging it again
\* against the same store yields the same matched_concepts in the same order.
C9_TagDocument ==
    [][ last_op' = "_tag_document" =>
          LET doc == files[1].doc
          IN  /\ files' = files
              /\ concepts' = concepts
              /\ \A i \in 1..Len(documents') :
                    /\ documents'[i].doc_id = doc.doc_id
                    /\ documents'[i].title = doc.title
                    /\ documents'[i].content = doc.content
                    /\ documents'[i].matched_concepts =
                          match_concepts(concepts, doc.title \o << " " >> \o doc.content)
                    /\ documents'[i].embedding = None
                    /\ documents'[i].matched_concepts = documents'[1].matched_concepts ]_vars

\* C9 witness: a document tagged twice with two concepts, where joining
\* title and content without the space would have matched differently
C9_Witness ==
    /\ last_op = "_tag_document"
    /\ Len(documents) = 2
    /\ Len(documents[2].matched_concepts) = 2
    /\ match_concepts(concepts, files[1].doc.title \o files[1].doc.content)
          # documents[2].matched_concepts

(***************************************************************************)
(* _extract_snippet alone: contents made of a fixed opening and every tail *)
(* over a small alphabet, for every max_chars up to MaxChars.              *)
(***************************************************************************)
MaxTailLen == 5

MaxThreads == 2      \* threads calling the orchestrator in SpecThreads
MaxChars == 9

SnippetAlphabet == { "a", ".", "?", " " }

SnippetOpenings ==
    { <<>>, << "a", "a", "a", "a", "a" >>, << "a", "a", "a", "!", " " >>,
      << "a", "\n", "a", "a" >> }

SnippetContents ==
    { opening \o tail : opening \in SnippetOpenings,
                        tail \in SeqsUpTo(SnippetAlphabet, MaxTailLen) }

InitSnippet ==
    /\ sn_content \in SnippetContents
    /\ sn_max_chars \in 0..MaxChars
    /\ sn_result = <<>>
    /\ threads = <<>>
    /\ heap = <<>>
    /\ documents_id = 0
    /\ concepts = <<>>
    /\ files = <<>>
    /\ _initialized = FALSE
    /\ documents = <<>>
    /\ last_op = "none"
    /\ q_text = <<>>
    /\ q_top_k = 0
    /\ query_embedding = None
    /\ matched = <<>>
    /\ candidates = <<>>
    /\ ranked = <<>>
    /\ result = <<>>
    /\ error = "none"
    /\ calls = NoCalls

ExtractSnippet ==
    /\ last_op = "none"
    /\ sn_result' = _extract_snippet(sn_content, sn_max_chars)
    /\ last_op' = "_extract_snippet"
    /\ UNCHANGED << concepts, files, _initialized, documents, q_text, q_top_k,
                    query_embedding, matched, candidates, ranked, result, error,
                    calls, sn_content, sn_max_chars,
                    threads, heap, documents_id >>

NextSnippet == ExtractSnippet

SpecSnippet == InitSnippet /\ [][NextSnippet]_vars

SnippetHead == Take(sn_content, sn_max_chars)

\* the content was longer than max_chars and the extractor has run
LongContentCut == last_op = "_extract_snippet" /\ Len(sn_content) > sn_max_chars

\* the position of the last occurrence in head of the k-th terminator token
LastAt(k) == rfind(SnippetHead, Delimiters[k])

BeyondMidpoint(position) == 2 * position > sn_max_chars

\* C10 as stated: when the rightmost of the last occurrences of ". ", "? "
\* and "! " in head lies beyond max_chars/2, the snippet is head through
\* that rightmost terminator's punctuation character, trimmed, no ellipsis.
C10_RightmostTerminator ==
    LongContentCut =>
        LET found == { LastAt(k) : k \in 1..Len(Delimiters) } \ { -1 }
            rightmost == CHOOSE p \in found : \A q \in found : q <= p
        IN  (found # {} /\ BeyondMidpoint(rightmost)) =>
                sn_result = strip(Take(SnippetHead, rightmost + 1))

\* C10 as amended: under the same condition, the first of the tokens ". ",
\* "? ", "! " (in this order) whose last occurrence in head lies beyond
\* max_chars/2 decides: the snippet is head through the punctuation
\* character of that occurrence, trimmed, no ellipsis.
C10_FirstTerminatorInOrder ==
    LongContentCut =>
        LET beyond == { k \in 1..Len(Delimiters) : BeyondMidpoint(LastAt(k)) }
            first == CHOOSE k \in beyond : \A m \in beyond : k <= m
        IN  beyond # {} => sn_result = strip(Take(SnippetHead, LastAt(first) + 1))

\* C10 witness: two terminators end beyond the midpoint and the snippet
\* ends at the one that comes first in the token order, not at the rightmost
C10_Witness ==
    /\ LongContentCut
    /\ \E k, m \in 1..Len(Delimiters) :
          /\ k < m
          /\ BeyondMidpoint(LastAt(k))
          /\ LastAt(m) > LastAt(k)
          /\ sn_result = strip(Take(SnippetHead, LastAt(k) + 1))

\* no terminator token has its last occurrence in head beyond the midpoint
NoTerminatorBeyondMidpoint ==
    \A k \in 1..Len(Delimiters) : ~BeyondMidpoint(LastAt(k))

\* the 0-based positions in head of the characters in the set chars
PositionsOf(chars) == { i \in 0..(Len(SnippetHead) - 1) : SnippetHead[i + 1] \in chars }

Last(positions) == CHOOSE p \in positions : \A q \in positions : q <= p

\* C11 as stated: with no terminator beyond the midpoint, the snippet is
\* head truncated at its last whitespace character, trimmed, followed by
\* "..." (nothing is said of a head without whitespace).
C11_CutAtLastWhitespace ==
    (LongContentCut /\ NoTerminatorBeyondMidpoint /\ PositionsOf(Whitespace) # {}) =>
        sn_result = strip(Take(SnippetHead, Last(PositionsOf(Whitespace)))) \o Ellipsis

\* C11 as amended: with no terminator beyond the midpoint, the snippet is
\* head truncated at its last space character " " when that lies at a
\* position greater than 0, and the whole head when it holds no space or
\* only a leading one (a newline is no cut point); trimmed, followed by "...".
C11_CutAtLastSpace ==
    (LongContentCut /\ NoTerminatorBeyondMidpoint) =>
        LET spaces == PositionsOf({ " " })
            kept == IF spaces # {} /\ Last(spaces) > 0
                    THEN Take(SnippetHead, Last(spaces))
                    ELSE SnippetHead
        IN  sn_result = strip(kept) \o Ellipsis

\* C11 witness: head holds a newline and no space, and comes back whole
\* with the marker
C11_Witness ==
    /\ LongContentCut
    /\ NoTerminatorBeyondMidpoint
    /\ PositionsOf({ "\n" }) # {}
    /\ PositionsOf({ " " }) = {}
    /\ sn_result = SnippetHead \o Ellipsis

\* C12: content no longer than max_chars is returned unchanged, neither
\* trimmed nor marked; empty content yields the empty string.
C12_ShortContentUnchanged ==
    last_op = "_extract_snippet" =>
        /\ Len(sn_content) <= sn_max_chars => sn_result = sn_content
        /\ sn_content = <<>> => sn_result = <<>>

\* C12 witness: content of exactly max_chars characters that begins and
\* ends with a space is returned as it is
C12_Witness ==
    /\ last_op = "_extract_snippet"
    /\ Len(sn_content) = sn_max_chars
    /\ Len(sn_content) >= 3
    /\ sn_content[1] = " "
    /\ sn_content[Len(sn_content)] = " "
    /\ sn_result = sn_content

\* C13: for every content and every max_chars >= 0 the snippet is at most
\* max_chars plus the length of the ellipsis marker long.
C13_SnippetLength ==
    (last_op = "_extract_snippet" /\ sn_max_chars >= 0) =>
        Len(sn_result) <= sn_max_chars + Len(Ellipsis)

\* C13 witness: a head without space or terminator comes back whole with
\* the marker, max_chars + 3 characters
C13_Witness ==
    /\ LongContentCut
    /\ sn_max_chars > 0
    /\ PositionsOf(Whitespace) = {}
    /\ Len(sn_result) = sn_max_chars + Len(Ellipsis)

(***************************************************************************)
(* Further properties of the orchestrator, checked under Spec.             *)
(***************************************************************************)
\* C14: every QueryResult returned by query() has a score within [0,1],
\* whatever the collection, the query vector and the document embeddings,
\* pairs of negative cosine similarity included.
C14_ScoreInUnitInterval ==
    \A i \in 1..Len(result) :
        result[i].score >= ScoreZero /\ result[i].score <= ScoreOne

\* C14 witness: a query returns results while one of its candidates has a
\* negative cosine similarity
C14_Witness ==
    /\ ReadyQuery
    /\ error = "none"
    /\ result # <<>>
    /\ \E i \in 1..Len(ranked) : ranked[i].score < ScoreZero

\* C15: the orchestrator is never Ready with an empty document collection
\* (a source that supplies no documents makes initialize() fail first).
C15_NeverReadyEmpty == _initialized => documents # <<>>

\* the pairs query() selects from the ranked list of the last call
SelectedPairs == TopK(ranked, q_top_k)

\* C17: in state Ready, query() builds one QueryResult per selected
\* (document, score) pair, carrying the document's doc_id, title and
\* matched_concepts, the pair's score and the snippet of the content with
\* max_chars=200; results are in rank order (non-increasing score) and no
\* document appears in two results.
C17_ResultPerSelectedPair ==
    (ReadyQuery /\ query_embedding # None) =>
        /\ Len(result) = Len(SelectedPairs)
        /\ \A i \in 1..Len(result) :
              result[i] = [ doc_id |-> SelectedPairs[i].doc.doc_id,
                            title |-> SelectedPairs[i].doc.title,
                            matched_concepts |-> SelectedPairs[i].doc.matched_concepts,
                            score |-> SelectedPairs[i].score,
                            snippet |-> _extract_snippet(SelectedPairs[i].doc.content,
                                                         SnippetMaxChars) ]
        /\ \A i, j \in 1..Len(result) :
              i < j => /\ result[i].score >= result[j].score
                       /\ result[i].doc_id # result[j].doc_id

\* C17, for the calls in which every selected score passes the validation
\* of QueryResponse.score
C17_WhenScoresValid == error = "none" => C17_ResultPerSelectedPair

\* C18: whenever the orchestrator is Ready every document of the collection
\* has an embedding, so the ranker's exclusion of embedding-less documents
\* removes no candidate of a query.
C18_AllEmbedded ==
    /\ _initialized => \A i \in 1..Len(documents) : documents[i].embedding # None
    /\ (ReadyQuery /\ query_embedding # None) =>
          /\ Len(ranked) = Len(candidates)
          /\ \A doc \in Range(candidates) :
                \E i \in 1..Len(ranked) : ranked[i].doc = doc

\* C18 witness: a query over several candidates ranks every one of them
C18_Witness ==
    /\ ReadyQuery
    /\ Len(candidates) >= 2
    /\ Len(ranked) = Len(candidates)
    /\ \A i \in 1..Len(documents) : documents[i].embedding # None

\* C19: a failure of the loader or of the provider during initialize()
\* reaches the caller after one load and at most one encode (no retry) and
\* leaves the orchestrator Uninitialized; while Uninitialized every query()
\* fails with the not-ready error; an initialize() call made while
\* Uninitialized that returns normally ends Ready after one full load, tag
\* and embed sequence, and nothing else makes the orchestrator Ready.
C19_FailedInitialize ==
    [][ /\ (last_op' = "initialize" /\ error' # "none") =>
              /\ ~_initialized /\ ~_initialized'
              /\ calls'.load = 1
              /\ calls'.encode <= 1
        /\ (~_initialized /\ last_op' = "query") =>
              error' = "NotReady" /\ ~_initialized'
        /\ (~_initialized /\ last_op' = "initialize" /\ error' = "none") =>
              /\ _initialized'
              /\ calls'.load = 1
              /\ calls'.match = Len(documents')
              /\ documents' # <<>> => calls'.encode = 1
        /\ (~_initialized /\ _initialized') => last_op' = "initialize"
      ]_vars

\* C19 witness: a query is rejected as not ready while the collection left
\* by an initialize() call whose provider failed is still loaded
C19_Witness ==
    /\ last_op = "query"
    /\ error = "NotReady"
    /\ ~_initialized
    /\ documents # <<>>

(***************************************************************************)
(* SpecThreads: initialize() and query() called from several threads on    *)
(* one orchestrator.  Neither method takes a lock, so a thread can be       *)
(* preempted between any two of its reads and writes of self.documents,    *)
(* self._initialized and doc.embedding.  The loader and the provider do not *)
(* fail here, queries are non-blank, and the provider is deterministic.     *)
(***************************************************************************)
Threads == 1..MaxThreads

\* the positions of a thread inside initialize(), after its guard
InitPositions == { "load", "embed", "assign", "store", "flag" }

\* a thread outside any call
Idle ==
    [ pc |-> "idle", op |-> "none", query_text |-> <<>>, top_k |-> 0,
      docs |-> 0, k |-> 0, candidate_docs |-> <<>>, settled |-> FALSE,
      result |-> <<>>, error |-> "none" ]

\* self.model.encode: the same text always gets the same vector
encode(doc) ==
    IF doc.doc_id = "d1" THEN << 3, 4 >>
    ELSE IF doc.doc_id = "d2" THEN << 1, 0 >>
    ELSE << -1, 0 >>

ThreadQueryVector == << 1, 0 >>

ThreadQueries == { << "a" >>, << "c" >> }

ThreadTopKs == { MaxTopK }

\* directories of two files of which at least one parses
ThreadFiles ==
    { md_files \in FileChoices :
        Len(md_files) = 2 /\ \E i \in 1..Len(md_files) : md_files[i].parses }

\* no initialize() call that passed its guard is still running
NoInitializeRunning == \A t \in Threads : threads[t].pc \notin InitPositions

\* Ready, with no such call left (recorded by query() calls when accepted)
Settled == _initialized /\ NoInitializeRunning

\* the document object of list list_id that doc referred to when it was read
Deref(list_id, doc) ==
    CHOOSE current \in Range(heap[list_id]) : current.doc_id = doc.doc_id

\* lines 106-121 of query(): rank the candidates as they are now, select, build
RankAndBuild(list_id, picked, top_k) ==
    LET now == [ i \in 1..Len(picked) |-> Deref(list_id, picked[i]) ]
        selected == TopK(rank_by_similarity(ThreadQueryVector, now), top_k)
    IN  IF \E i \in 1..Len(selected) : ~ScoreValid(selected[i].score)
        THEN [ result |-> <<>>, error |-> "ValidationError" ]
        ELSE [ result |-> [ i \in 1..Len(selected) |->
                              QueryResponse(selected[i].doc, selected[i].score) ],
               error |-> "none" ]

InitThreads ==
    /\ concepts \in { _load_concepts(data) : data \in { yaml \in PipelineYaml : Len(yaml) > 1 } }
    /\ files \in ThreadFiles
    /\ _initialized = FALSE
    /\ documents = <<>>
    /\ last_op = "none"
    /\ q_text = <<>>
    /\ q_top_k = 0
    /\ query_embedding = None
    /\ matched = <<>>
    /\ candidates = <<>>
    /\ ranked = <<>>
    /\ result = <<>>
    /\ error = "none"
    /\ calls = NoCalls
    /\ sn_content = <<>>
    /\ sn_max_chars = 0
    /\ sn_result = <<>>
    /\ threads = [ t \in Threads |-> Idle ]
    /\ heap = [ list_id \in 0..MaxThreads |-> <<>> ]
    /\ documents_id = 0

ThreadFrame ==
    UNCHANGED << concepts, files, last_op, q_text, q_top_k, query_embedding, matched,
                 candidates, ranked, result, error, calls,
                 sn_content, sn_max_chars, sn_result >>

\* initialize(), lines 38-40: the guard
CallInitialize(t) ==
    /\ threads[t].pc = "idle"
    /\ threads' = [ threads EXCEPT ![t] =
                      [ Idle EXCEPT !.op = "initialize",
                                    !.pc = IF AlreadyInitialized THEN "idle" ELSE "load" ] ]
    /\ UNCHANGED << _initialized, documents, heap, documents_id >>
    /\ ThreadFrame

\* line 46: self.documents = self.document_loader.load_documents()
LoadDocuments(t) ==
    /\ threads[t].pc = "load"
    /\ heap' = [ heap EXCEPT ![t] = load_documents(concepts, files) ]
    /\ documents_id' = t
    /\ documents' = heap'[t]
    /\ threads' = [ threads EXCEPT ![t].pc = "embed" ]
    /\ UNCHANGED _initialized
    /\ ThreadFrame

\* line 54, the call: embed_documents(self.documents) takes the list
\* self.documents refers to now and encodes its texts
EmbedCall(t) ==
    /\ threads[t].pc = "embed"
    /\ threads' = [ threads EXCEPT ![t].docs = documents_id,
                                   ![t].k = 1,
                                   ![t].pc = IF heap[documents_id] = <<>>
                                             THEN "store" ELSE "assign" ]
    /\ UNCHANGED << _initialized, documents, heap, documents_id >>
    /\ ThreadFrame

\* embedding_engine.py lines 51-52: doc.embedding = embedding, one document
AssignEmbedding(t) ==
    /\ threads[t].pc = "assign"
    /\ LET list_id == threads[t].docs
           k == threads[t].k
       IN  /\ heap' = [ heap EXCEPT ![list_id][k].embedding = encode(heap[list_id][k]) ]
           /\ threads' = [ threads EXCEPT ![t].k = k + 1,
                                          ![t].pc = IF k = Len(heap[list_id])
                                                    THEN "store" ELSE "assign" ]
    /\ documents' = heap'[documents_id]
    /\ UNCHANGED << _initialized, documents_id >>
    /\ ThreadFrame

\* line 54, the assignment: self.documents = the list embed_documents returned
StoreDocuments(t) ==
    /\ threads[t].pc = "store"
    /\ documents_id' = threads[t].docs
    /\ documents' = heap[threads[t].docs]
    /\ threads' = [ threads EXCEPT ![t].pc = "flag" ]
    /\ UNCHANGED << _initialized, heap >>
    /\ ThreadFrame

\* line 56: self._initialized = True
SetInitialized(t) ==
    /\ threads[t].pc = "flag"
    /\ _initialized' = TRUE
    /\ threads' = [ threads EXCEPT ![t] = [ Idle EXCEPT !.op = "initialize" ] ]
    /\ UNCHANGED << documents, heap, documents_id >>
    /\ ThreadFrame

\* query(), lines 76-77: the not-initialized check
CallQuery(t) ==
    /\ threads[t].pc = "idle"
    /\ \E query_text \in ThreadQueries, top_k \in ThreadTopKs :
          threads' = [ threads EXCEPT ![t] =
              [ Idle EXCEPT !.op = "query",
                            !.query_text = query_text,
                            !.top_k = top_k,
                            !.settled = Settled,
                            !.pc = IF NotReady THEN "idle" ELSE "filter",
                            !.error = IF NotReady THEN "NotReady" ELSE "none" ] ]
    /\ UNCHANGED << _initialized, documents, heap, documents_id >>
    /\ ThreadFrame

\* lines 85-103: match the query and filter self.documents
FilterDocuments(t) ==
    /\ threads[t].pc = "filter"
    /\ LET matched_concept_ids == match_concepts(concepts, threads[t].query_text)
           cands == candidate_docs(heap[documents_id], matched_concept_ids)
       IN  threads' = [ threads EXCEPT ![t] =
              IF cands = <<>>
              THEN [ Idle EXCEPT !.op = "query", !.settled = threads[t].settled ]
              ELSE [ threads[t] EXCEPT !.docs = documents_id,
                                       !.candidate_docs = cands,
                                       !.pc = "rank" ] ]
    /\ UNCHANGED << _initialized, documents, heap, documents_id >>
    /\ ThreadFrame

\* lines 106-124: embed the query, rank, select, build the results
RankCandidates(t) ==
    /\ threads[t].pc = "rank"
    /\ \E out \in { RankAndBuild(threads[t].docs, threads[t].candidate_docs,
                                 threads[t].top_k) } :
          threads' = [ threads EXCEPT ![t] =
              [ Idle EXCEPT !.op = "query",
                            !.settled = threads[t].settled,
                            !.result = out.result,
                            !.error = out.error ] ]
    /\ UNCHANGED << _initialized, documents, heap, documents_id >>
    /\ ThreadFrame

NextThreads ==
    \E t \in Threads :
        \/ CallInitialize(t)
        \/ LoadDocuments(t)
        \/ EmbedCall(t)
        \/ AssignEmbedding(t)
        \/ StoreDocuments(t)
        \/ SetInitialized(t)
        \/ CallQuery(t)
        \/ FilterDocuments(t)
        \/ RankCandidates(t)

SpecThreads == InitThreads /\ [][NextThreads]_vars

\* thread t returns from query() in this step
QueryReturns(t) ==
    threads[t].pc \in { "filter", "rank" } /\ threads'[t].pc = "idle"

\* what the query() call of thread t returns when nothing else runs
Alone(t) == QueryOutcome(threads[t].query_text, threads[t].top_k, ThreadQueryVector, TRUE)

FullyEmbedded == \A i \in 1..Len(documents) : documents[i].embedding # None

====
